---- MODULE Spec2Model ----
(***************************************************************************)
(* Model of the EGAP orchestrator (services/orchestrator/src/index.ts):    *)
(* the command-plane API (chat, approve, reject, emergency stop), the      *)
(* Pub/Sub subscription and the worker handler handleMessage, one step per *)
(* awaited call.  Between two awaits a handler runs without interruption   *)
(* (single-threaded event loop), so each action is one awaited call plus   *)
(* the synchronous code that follows it up to the next await.  The         *)
(* stand-alone worker of unnamed/part_005 is modelled the same way, as a   *)
(* specification of its own (SpecIngress).                                 *)
(***************************************************************************)
EXTENDS Naturals, Sequences, FiniteSets

\* ---------------------------------------------------------------- bounds
MaxBus == 3          \* messages ever published to the topic
MaxChats == 1        \* chat requests posted
MaxApiCalls == 3     \* approve / reject requests issued
MaxFaults == 1       \* awaited calls that reject (persistence, model, publish)
MaxExternal == 1     \* events published by other services
NumHandlers == 2     \* handler invocations in flight at once

\* --------------------------------------------------------- program constants
MaxDeliveryAttempts == 5

Handlers == 1..NumHandlers

\* Agents in the store: a1 is LIVE with role "slack", a2 is a DRAFT with role
\* "mail", a3 is LIVE with role "web"; a9 names no agent.
AgentIds == {"a1", "a2", "a3"}
NoAgent == "a9"

AgentStatus(a) == IF a = "a2" THEN "DRAFT" ELSE "LIVE"

AgentRole(a) == IF a = "a1" THEN "slack" ELSE IF a = "a2" THEN "mail" ELSE "web"

\* The function declarations of the worker.
Tools == {"search_vertex_docs", "send_email"}

\* The tools enabled for an agent (agent.tools): a1 and a2 have both tools,
\* a3 may search only.
AgentTools(a) == IF a = "a3" THEN {"search_vertex_docs"} ELSE Tools

\* Lines 509-514: tools: tools, allowedFunctionNames: both names, whatever
\* the agent.
OfferedTools(a) == Tools

\* A dbMessageId that names no Message row.
NoMessage == 99

\* Text is a sequence of tokens: a run of word characters is one token, every
\* other character is a token of its own.
SQ == "'"
DQ == "\""
Quotes == {SQ, DQ}
Punctuation == {"(", ")", "=", ",", " ", ":", SQ, DQ}

\* \w+ : a run of word characters
IsWord(tok) == tok \notin Punctuation

\* Argument objects are functions from keys to string values.
EmptyArgs == [k \in {} |-> << >>]
EmailArgs == [recipient |-> << "a" >>, subject |-> << "Hi" >>, body |-> << "Yo" >>]
QueryArgs == [query |-> << "q" >>]

\* The keys of an object that hold a truthy value ('' is falsy).
Truthy(args) == {k \in DOMAIN args : args[k] # << >>}

NoPart == [kind |-> "none", name |-> "", args |-> EmptyArgs, text |-> << >>]

\* Calls the model may write out as Python instead of calling the function:
\* name and keyword arguments in order.
EmailCall ==
    [name |-> "send_email",
     kwargs |-> << [key |-> "recipient", value |-> << "a" >>],
                   [key |-> "subject", value |-> << "Hi" >>],
                   [key |-> "body", value |-> << "Yo" >>] >>]

\* The same call with an apostrophe in the body: It's
QuotedEmailCall ==
    [name |-> "send_email",
     kwargs |-> << [key |-> "recipient", value |-> << "a" >>],
                   [key |-> "subject", value |-> << "Hi" >>],
                   [key |-> "body", value |-> << "It", SQ, "s" >>] >>]

FileCall ==
    [name |-> "save_file",
     kwargs |-> << [key |-> "filename", value |-> << "f" >>],
                   [key |-> "content", value |-> << "c" >>] >>]

NoCall == [name |-> "", kwargs |-> << >>]

\* The argument object a call stands for.
ArgsOf(call) ==
    [k \in {call.kwargs[i].key : i \in 1..Len(call.kwargs)} |->
        LET i == CHOOSE i \in 1..Len(call.kwargs) : call.kwargs[i].key = k
        IN  call.kwargs[i].value]

\* A string literal as Python prints it: single quotes, double quotes when
\* the string holds an apostrophe.
Repr(value) ==
    IF \E i \in 1..Len(value) : value[i] = SQ
    THEN << DQ >> \o value \o << DQ >>
    ELSE << SQ >> \o value \o << SQ >>

RECURSIVE ReprArgs(_, _)
ReprArgs(kwargs, i) ==
    IF i > Len(kwargs) THEN << >>
    ELSE (IF i > 1 THEN << ",", " " >> ELSE << >>)
         \o << kwargs[i].key, "=" >> \o Repr(kwargs[i].value)
         \o ReprArgs(kwargs, i + 1)

\* "Unexpected tool call: print(send_email(recipient='...', ...))"
UnexpectedToolCall(call) ==
    << "Unexpected", " ", "tool", " ", "call", ":", " ", "print", "(", call.name, "(" >>
    \o ReprArgs(call.kwargs, 1) \o << ")", ")" >>

\* finishMessage of a candidate: its text, and the call the text stands for.
NoFinishMessage == [present |-> FALSE, text |-> << >>, call |-> NoCall]

FinishMessage(call) == [present |-> TRUE, text |-> UnexpectedToolCall(call), call |-> call]

\* A finish message that names a call without writing it out.
OtherFinishMessage ==
    [present |-> TRUE,
     text |-> << "Unexpected", " ", "tool", " ", "call", ":", " ", "send_email" >>,
     call |-> NoCall]

\* Results chat.sendMessage can resolve with (first candidate only).
ModelResults ==
    { [finishReason |-> "STOP", finishMessage |-> NoFinishMessage,
       part |-> [kind |-> "functionCall", name |-> "send_email", args |-> EmailArgs,
                 text |-> << >>]],
      [finishReason |-> "STOP", finishMessage |-> NoFinishMessage,
       part |-> [kind |-> "functionCall", name |-> "search_vertex_docs",
                 args |-> QueryArgs, text |-> << >>]],
      [finishReason |-> "STOP", finishMessage |-> NoFinishMessage,
       part |-> [kind |-> "text", name |-> "", args |-> EmptyArgs, text |-> << "Hello" >>]],
      [finishReason |-> "UNEXPECTED_TOOL_CALL",
       finishMessage |-> FinishMessage(EmailCall), part |-> NoPart],
      [finishReason |-> "UNEXPECTED_TOOL_CALL",
       finishMessage |-> FinishMessage(QuotedEmailCall), part |-> NoPart],
      [finishReason |-> "UNEXPECTED_TOOL_CALL",
       finishMessage |-> FinishMessage(FileCall), part |-> NoPart],
      [finishReason |-> "UNEXPECTED_TOOL_CALL",
       finishMessage |-> OtherFinishMessage, part |-> NoPart] }

NoResult == [finishReason |-> "", finishMessage |-> NoFinishMessage, part |-> NoPart]

\* ------------------------------------------------------------------ state
VARIABLES
    tasks,          \* Task table: sequence of records, id = index
    messages,       \* Message table: sequence of records, id = index
    usageLogs,      \* UsageLog table
    spans,          \* TraceSpan table: sequence of records, id = index
    emergency_stop, \* globalSettings['emergency_stop'].value.active
    bus,            \* messages published to the topic, with delivery state
    hs,             \* handleMessage invocations: position and locals
    toolExecs,      \* tool executions performed by the worker
    modelCalls,     \* number of chat.sendMessage calls made
    publishing,     \* approve requests between task.update and publishMessage
    apiLast,        \* the latest approve / reject request and its reply code (0: none yet)
    apiCalls,       \* approve / reject requests issued
    faults,         \* awaited calls that have rejected
    prompts,        \* Agent.systemPrompt of every agent
    promptHistory,  \* PromptHistory table
    updating,       \* PUT /api/agents/:id requests in flight
    stats           \* the latest reply of GET /api/dashboard/stats

\* State written by the admin endpoints only.
adminVars == << prompts, promptHistory, updating, stats >>

vars == << tasks, messages, usageLogs, spans, emergency_stop, bus, hs, toolExecs,
           modelCalls, publishing, apiLast, apiCalls, faults, adminVars >>

TaskIds == 1..Len(tasks)

Idle == [pc |-> "idle", m |-> 0, task |-> 0, loaded |-> "", result |-> NoResult,
         span |-> 0, agent |-> "", history |-> << >>]

NoReply == [op |-> "", id |-> 0, code |-> 0]

\* System prompts an admin can submit; every agent is created with the first.
Prompts == {"p0", "p1"}

FirstPrompt == "p0"

\* No dashboard reply yet.
NoStats == [served |-> FALSE, activeAgents |-> 0, pendingTasks |-> 0, zombieCount |-> 0]

Init ==
    /\ tasks = << >>
    /\ messages = << >>
    /\ usageLogs = << >>
    /\ spans = << >>
    /\ emergency_stop = FALSE
    /\ bus = << >>
    /\ hs = [h \in Handlers |-> Idle]
    /\ toolExecs = << >>
    /\ modelCalls = 0
    /\ publishing = << >>
    /\ apiLast = NoReply
    /\ apiCalls = 0
    /\ faults = 0
    /\ prompts = [a \in AgentIds |-> FirstPrompt]
    /\ promptHistory = << >>
    /\ updating = << >>
    /\ stats = NoStats

\* ------------------------------------------------------------ bus helpers
Body(type, agentId, taskId, action, dbMessageId, traceId) ==
    [type |-> type, agentId |-> agentId, taskId |-> taskId, action |-> action,
     dbMessageId |-> dbMessageId, traceId |-> traceId, source |-> "", tool |-> ""]

Publish(b, body, source) ==
    Append(b, [data |-> body, source |-> source, attempts |-> 0, state |-> "queued",
               decisions |-> 0])

BusRoom == Len(bus) + Len(publishing) < MaxBus

\* A delivery: one more attempt, no ack or nack called on it yet.
Deliver(b, m) ==
    [b EXCEPT ![m].attempts = @ + 1, ![m].state = "inflight", ![m].decisions = 0]

\* message.ack(): the message leaves the subscription.
Ack(b, m) == [b EXCEPT ![m].state = "acked", ![m].decisions = @ + 1]

NackRedelivers(b, m) == [b EXCEPT ![m].state = "queued", ![m].decisions = @ + 1]

\* message.nack(): redelivered, or dead-lettered after max-delivery-attempts.
Nack(b, m) ==
    [b EXCEPT ![m].state = IF b[m].attempts >= MaxDeliveryAttempts
                           THEN "dead" ELSE "queued",
              ![m].decisions = @ + 1]


\* ------------------------------------------------------- command-plane API
\* POST /api/chat: save the user message, publish a CHAT event carrying its id.
ApiChat(a) ==
    /\ BusRoom
    /\ Cardinality({m \in 1..Len(bus) : bus[m].source = "chat-api"}) < MaxChats
    /\ messages' = Append(messages, [agentId |-> a, role |-> "user", kind |-> "user",
                                     ref |-> 0, costed |-> FALSE,
                                     content |-> << "hi" >>])
    /\ bus' = Publish(bus, Body("CHAT", a, 0, "", Len(messages) + 1, Len(bus) + 1),
                       "chat-api")
    /\ UNCHANGED << adminVars, tasks, usageLogs, spans, emergency_stop, hs, toolExecs, modelCalls,
                    publishing, apiLast, apiCalls, faults >>

\* POST /api/settings/emergency
ApiSetEmergency(active) ==
    /\ active # emergency_stop
    /\ emergency_stop' = active
    /\ UNCHANGED << adminVars, tasks, messages, usageLogs, spans, bus, hs, toolExecs, modelCalls,
                    publishing, apiLast, apiCalls, faults >>

\* prisma.task.update({where: {id}, data: {status}}): no condition on the
\* current status.
SetStatus(t, id, status) == [t EXCEPT ![id].status = status]

\* POST /api/tasks/:id/approve, up to the first await's result: the update.
\* A missing task makes the update throw: 404.
ApiApproveUpdate(id) ==
    /\ apiCalls < MaxApiCalls
    /\ BusRoom
    /\ apiCalls' = apiCalls + 1
    /\ IF id \in TaskIds
       THEN /\ tasks' = SetStatus(tasks, id, "APPROVED")
            /\ publishing' = Append(publishing, id)
            /\ apiLast' = [op |-> "approve", id |-> id, code |-> 0]
       ELSE /\ apiLast' = [op |-> "approve", id |-> id, code |-> 404]
            /\ UNCHANGED << tasks, publishing >>
    /\ UNCHANGED << adminVars, messages, usageLogs, spans, emergency_stop, bus, hs, toolExecs,
                    modelCalls, faults >>

Without(s, i) == SubSeq(s, 1, i - 1) \o SubSeq(s, i + 1, Len(s))

\* POST /api/tasks/:id/approve, the publish: a RESUME event for the task.
ApiApprovePublish(i) ==
    /\ i \in 1..Len(publishing)
    /\ LET id == publishing[i] IN
        /\ bus' = Publish(bus, Body("RESUME", tasks[id].agentId, id, "APPROVED",
                                    0, Len(bus) + 1), "governance-api")
        /\ apiLast' = [op |-> "approve", id |-> id, code |-> 200]
    /\ publishing' = Without(publishing, i)
    /\ UNCHANGED << adminVars, tasks, messages, usageLogs, spans, emergency_stop, hs, toolExecs,
                    modelCalls, apiCalls, faults >>

\* publishMessage rejects: caught, 404, the status stays APPROVED.
ApiApprovePublishFails(i) ==
    /\ i \in 1..Len(publishing)
    /\ faults < MaxFaults
    /\ faults' = faults + 1
    /\ apiLast' = [op |-> "approve", id |-> publishing[i], code |-> 404]
    /\ publishing' = Without(publishing, i)
    /\ UNCHANGED << adminVars, tasks, messages, usageLogs, spans, emergency_stop, bus, hs, toolExecs,
                    modelCalls, apiCalls >>

ApiRejectPublishes(id) ==
    /\ apiCalls < MaxApiCalls
    /\ apiCalls' = apiCalls + 1
    /\ IF id \in TaskIds
       THEN /\ tasks' = SetStatus(tasks, id, "REJECTED")
            /\ apiLast' = [op |-> "reject", id |-> id, code |-> 200]
            /\ bus' = IF BusRoom
                      THEN Publish(bus, Body("RESUME", tasks[id].agentId, id, "APPROVED",
                                             0, Len(bus) + 1), "governance-api")
                      ELSE bus
       ELSE /\ apiLast' = [op |-> "reject", id |-> id, code |-> 404]
            /\ UNCHANGED << tasks, bus >>
    /\ UNCHANGED << adminVars, messages, usageLogs, spans, emergency_stop, hs, toolExecs,
                    modelCalls, publishing, faults >>

\* POST /api/tasks/:id/reject
ApiReject(id) ==
    /\ apiCalls < MaxApiCalls
    /\ apiCalls' = apiCalls + 1
    /\ IF id \in TaskIds
       THEN /\ tasks' = SetStatus(tasks, id, "REJECTED")
            /\ apiLast' = [op |-> "reject", id |-> id, code |-> 200]
       ELSE /\ apiLast' = [op |-> "reject", id |-> id, code |-> 404]
            /\ UNCHANGED tasks
    /\ UNCHANGED << adminVars, messages, usageLogs, spans, emergency_stop, bus, hs, toolExecs,
                    modelCalls, publishing, faults >>


\* Tasks that the zombie query at lines 279-285 can count: those PENDING or
\* RUNNING; which of them were last updated more than ten minutes ago
\* depends on the time that has passed.
StaleCandidates == {id \in TaskIds : tasks[id].status \in {"PENDING", "RUNNING"}}

ApiDashboardStatsReaps(zombies) ==
    /\ zombies \subseteq StaleCandidates
    /\ stats' = [served |-> TRUE,
                 activeAgents |-> Cardinality(AgentIds),
                 pendingTasks |-> Cardinality({id \in TaskIds : tasks[id].status = "PENDING"}),
                 zombieCount |-> Cardinality(zombies)]
    /\ tasks' = [id \in TaskIds |->
                    IF id \in zombies THEN [tasks[id] EXCEPT !.status = "REJECTED"]
                    ELSE tasks[id]]
    /\ UNCHANGED << prompts, promptHistory, updating, messages, usageLogs, spans,
                    emergency_stop, bus, hs, toolExecs, modelCalls, publishing, apiLast,
                    apiCalls, faults >>

\* GET /api/dashboard/stats (lines 268-301): counts only; the reply's cost
\* total and trace list are left out.
ApiDashboardStats(zombies) ==
    /\ zombies \subseteq StaleCandidates
    /\ stats' = [served |-> TRUE,
                 activeAgents |-> Cardinality(AgentIds),
                 pendingTasks |-> Cardinality({id \in TaskIds : tasks[id].status = "PENDING"}),
                 zombieCount |-> Cardinality(zombies)]
    /\ UNCHANGED << prompts, promptHistory, updating, tasks, messages, usageLogs, spans,
                    emergency_stop, bus, hs, toolExecs, modelCalls, publishing, apiLast,
                    apiCalls, faults >>

\* Publishers other than this API (the topic is shared with the ingress
\* services): a body that is not JSON, an unknown type, a RESUME whose action
\* is not APPROVED, a RESUME naming no task, a RESUME for task 1, a CHAT
\* naming no agent, a CHAT naming no user message, a CHAT without dbMessageId.
ExternalBodies ==
    { Body("GARBAGE", "", 0, "", 0, 0),
      Body("PING", "a1", 0, "", 0, 0),
      Body("RESUME", "a1", 1, "REJECTED", 0, 0),
      Body("RESUME", "a1", 0, "APPROVED", 0, 0),
      Body("RESUME", "a1", 1, "APPROVED", 0, 0),
      Body("CHAT", NoAgent, 0, "", 0, 0),
      Body("CHAT", "a1", 0, "", NoMessage, 0),
      Body("CHAT", "a1", 0, "", 0, 0) }

PublishExternal(body) ==
    /\ BusRoom
    /\ Cardinality({m \in 1..Len(bus) : bus[m].source = "external"}) < MaxExternal
    /\ bus' = Publish(bus, [body EXCEPT !.traceId = Len(bus) + 1], "external")
    /\ UNCHANGED << adminVars, tasks, messages, usageLogs, spans, emergency_stop, hs, toolExecs,
                    modelCalls, publishing, apiLast, apiCalls,
                    faults >>

\* ------------------------------------------------------------------ worker
Data(h) == bus[hs[h].m].data

\* JSON.parse(message.data.toString()) throws on a body that is not JSON.
Parses(data) == data.type # "GARBAGE"

\* The handler returns after message.ack() / message.nack().
Finish(h) == [hs EXCEPT ![h] = Idle]

At(h, pc) == hs[h].pc = pc

Goto(h, pc) == [hs EXCEPT ![h].pc = pc]

\* subscription.on('message', handleMessage): a delivery, and the handler up
\* to its first await (lines 389-405, 452-456, 668-674).
Receive(h, m) ==
    /\ At(h, "idle")
    /\ m \in 1..Len(bus)
    /\ bus[m].state = "queued"
    /\ LET data == bus[m].data
           delivered == Deliver(bus, m)
       IN  IF ~Parses(data)
           THEN bus' = Nack(delivered, m) /\ UNCHANGED hs
           ELSE IF data.type = "RESUME"
           THEN IF data.action # "APPROVED"
                THEN bus' = Ack(delivered, m) /\ UNCHANGED hs
                ELSE /\ bus' = delivered
                     /\ hs' = [hs EXCEPT ![h] = [Idle EXCEPT !.pc = "resume_find", !.m = m]]
           ELSE IF data.type = "CHAT"
           THEN /\ bus' = delivered
                /\ hs' = [hs EXCEPT ![h] = [Idle EXCEPT !.pc = "chat_safety", !.m = m]]
           ELSE bus' = Ack(delivered, m) /\ UNCHANGED hs
    /\ UNCHANGED << adminVars, tasks, messages, usageLogs, spans, emergency_stop, toolExecs, modelCalls,
                    publishing, apiLast, apiCalls, faults >>

\* Lines 412-425: which action the stored payload stands for.
ResumeTool(payload) ==
    IF {"recipient", "subject", "body"} \subseteq Truthy(payload)
    THEN "send_email" ELSE "approved_action"

ResumeFindTaskGated(h) ==
    /\ At(h, "resume_find")
    /\ LET id == Data(h).taskId IN
       IF emergency_stop \/ id \notin TaskIds \/ ~tasks[id].hasPayload
       THEN /\ bus' = Ack(bus, hs[h].m)
            /\ hs' = Finish(h)
            /\ UNCHANGED toolExecs
       ELSE /\ toolExecs' = Append(toolExecs,
                   [tool |-> ResumeTool(tasks[id].inputPayload), task |-> id])
            /\ hs' = [hs EXCEPT ![h].pc = "resume_update", ![h].task = id,
                                ![h].loaded = tasks[id].status]
            /\ UNCHANGED bus
    /\ UNCHANGED << adminVars, tasks, messages, usageLogs, spans, emergency_stop, modelCalls,
                    publishing, apiLast, apiCalls, faults >>

\* Lines 405-427: load the task; missing or without payload: ack.  Otherwise
\* the action is executed at once, whatever the task's current status.
ResumeFindTask(h) ==
    /\ At(h, "resume_find")
    /\ LET id == Data(h).taskId IN
       IF id \notin TaskIds \/ ~tasks[id].hasPayload
       THEN /\ bus' = Ack(bus, hs[h].m)
            /\ hs' = Finish(h)
            /\ UNCHANGED toolExecs
       ELSE /\ toolExecs' = Append(toolExecs,
                   [tool |-> ResumeTool(tasks[id].inputPayload), task |-> id])
            /\ hs' = [hs EXCEPT ![h].pc = "resume_update", ![h].task = id,
                                ![h].loaded = tasks[id].status]
            /\ UNCHANGED bus
    /\ UNCHANGED << adminVars, tasks, messages, usageLogs, spans, emergency_stop, modelCalls,
                    publishing, apiLast, apiCalls, faults >>

\* Lines 429-433: prisma.task.update({ data: { status: 'COMPLETED' } }).
ResumeUpdateTask(h) ==
    /\ At(h, "resume_update")
    /\ tasks' = SetStatus(tasks, Data(h).taskId, "COMPLETED")
    /\ hs' = Goto(h, "resume_agent")
    /\ UNCHANGED << adminVars, messages, usageLogs, spans, emergency_stop, bus, toolExecs, modelCalls,
                    publishing, apiLast, apiCalls, faults >>

\* Lines 436-437, 448: look the agent up; without one, ack.
ResumeFindAgent(h) ==
    /\ At(h, "resume_agent")
    /\ IF Data(h).agentId \in AgentIds
       THEN hs' = Goto(h, "resume_notify") /\ UNCHANGED bus
       ELSE hs' = Finish(h) /\ bus' = Ack(bus, hs[h].m)
    /\ UNCHANGED << adminVars, tasks, messages, usageLogs, spans, emergency_stop, toolExecs, modelCalls,
                    publishing, apiLast, apiCalls, faults >>

\* Contents written by the worker itself.
ConfirmText == << "[System]", " ", "executed" >>
HoldText == << "[System]", " ", "requires", " ", "Admin", " ", "Approval" >>
ToolText == << "(", "Tool", ":", " ", "search_vertex_docs", ")" >>
Apology == << "I'm sorry, I couldn't generate a response." >>

AssistantMessage(a, kind, ref, costed, content) ==
    [agentId |-> a, role |-> "assistant", kind |-> kind, ref |-> ref, costed |-> costed,
     content |-> content]

\* Lines 439-449: the confirmation message, then ack.
ResumeNotify(h) ==
    /\ At(h, "resume_notify")
    /\ messages' = Append(messages,
                          AssistantMessage(Data(h).agentId, "confirm", 0, FALSE,
                                           ConfirmText))
    /\ bus' = Ack(bus, hs[h].m)
    /\ hs' = Finish(h)
    /\ UNCHANGED << adminVars, tasks, usageLogs, spans, emergency_stop, toolExecs, modelCalls,
                    publishing, apiLast, apiCalls, faults >>


StopNever(value) == FALSE

\* Line 458: (globalSettings?.value as any)?.active === true
StopActive(value) == value = TRUE

\* Lines 454-470: read the emergency flag; active: ack and return.
ChatSafetyCheck(h) ==
    /\ At(h, "chat_safety")
    /\ IF StopActive(emergency_stop)
       THEN bus' = Ack(bus, hs[h].m) /\ hs' = Finish(h)
       ELSE hs' = Goto(h, "chat_agent") /\ UNCHANGED bus
    /\ UNCHANGED << adminVars, tasks, messages, usageLogs, spans, emergency_stop, toolExecs, modelCalls,
                    publishing, apiLast, apiCalls, faults >>

ChatFindAgentSilent(h) ==
    /\ At(h, "chat_agent")
    /\ IF Data(h).agentId \in AgentIds
       THEN hs' = Goto(h, "chat_history")
       ELSE hs' = Finish(h)
    /\ UNCHANGED << adminVars, tasks, messages, usageLogs, spans, emergency_stop, bus, toolExecs,
                    modelCalls, publishing, apiLast, apiCalls, faults >>

\* Lines 472-481: prisma.agent.findUnique({ where: { id: agentId } }).
ChatFindAgent(h) ==
    /\ At(h, "chat_agent")
    /\ IF Data(h).agentId \in AgentIds
       THEN hs' = Goto(h, "chat_history") /\ UNCHANGED bus
       ELSE bus' = Ack(bus, hs[h].m) /\ hs' = Finish(h)
    /\ UNCHANGED << adminVars, tasks, messages, usageLogs, spans, emergency_stop, toolExecs, modelCalls,
                    publishing, apiLast, apiCalls, faults >>

Min(S) == CHOOSE x \in S : \A y \in S : x <= y

Max(S) == CHOOSE x \in S : \A y \in S : x >= y

\* Line 487: take: 10
HistoryLimit == 10

\* Line 485: where: { agentId: agentId }; a row's id stands for its createdAt.
AgentRows(msgs, a) == {i \in 1..Len(msgs) : msgs[i].agentId = a}

\* Line 486: orderBy: { createdAt: 'desc' }
RECURSIVE NewestFirst(_)
NewestFirst(rows) ==
    IF rows = {} THEN << >>
    ELSE << Max(rows) >> \o NewestFirst(rows \ {Max(rows)})

Take(s, n) == SubSeq(s, 1, Min({n, Len(s)}))

Reverse(s) == [i \in 1..Len(s) |-> s[Len(s) + 1 - i]]

FindOldest(msgs, a) == Reverse(Take(Reverse(NewestFirst(AgentRows(msgs, a))), HistoryLimit))

\* Lines 484-488: prisma.message.findMany
FindHistory(msgs, a) == Take(NewestFirst(AgentRows(msgs, a)), HistoryLimit)

\* Line 491: admin and user turns are the user's, every other role the model's.
ChatRole(role) == IF role \in {"admin", "user"} THEN "user" ELSE "model"

\* Lines 490-493: history.reverse().map(...): the turns given to the model,
\* each with the row it was made from.
ChatTurns(msgs, history) ==
    [i \in 1..Len(history) |->
        [row |-> Reverse(history)[i], role |-> ChatRole(msgs[Reverse(history)[i]].role)]]

\* Lines 484-516: the history query; the chat session is built synchronously.
ChatHistory(h) ==
    /\ At(h, "chat_history")
    /\ hs' = [hs EXCEPT ![h].pc = "chat_model",
                        ![h].history =
                            ChatTurns(messages, FindHistory(messages, Data(h).agentId))]
    /\ UNCHANGED << adminVars, tasks, messages, usageLogs, spans, emergency_stop, bus, toolExecs,
                    modelCalls, publishing, apiLast, apiCalls,
                    faults >>

\* Lines 555-588: the first part of the first candidate, replaced by a
\* function call recovered from finishMessage when the regular expression
\* /print\(([\w_]+)\((.*)\)\)/ matches it.
\* Line 565: rawMsg.match(/print\(([\w_]+)\((.*)\)\)/): the leftmost print(fn(
\* that is followed by "))" somewhere; the greedy (.*) runs to the last "))".
HeadAt(text, i) ==
    /\ i + 3 <= Len(text)
    /\ text[i] = "print"
    /\ text[i + 1] = "("
    /\ IsWord(text[i + 2])
    /\ text[i + 3] = "("

Closers(text, i) ==
    {j \in (i + 4)..(Len(text) - 1) : text[j] = ")" /\ text[j + 1] = ")"}

NoMatch == [matched |-> FALSE, fnName |-> "", argsStr |-> << >>]

MatchCall(text) ==
    LET starts == {i \in 1..Len(text) : HeadAt(text, i) /\ Closers(text, i) # {}}
    IN  IF starts = {} THEN NoMatch
        ELSE LET i == Min(starts)
                 j == Max(Closers(text, i))
             IN  [matched |-> TRUE, fnName |-> text[i + 2],
                  argsStr |-> SubSeq(text, i + 4, j - 1)]

\* Line 575: args[m[1]] = m[2]
Assign(args, key, value) ==
    [k \in DOMAIN args \cup {key} |-> IF k = key THEN value ELSE args[k]]

\* Lines 572-576: argsStr.matchAll(/(\w+)=['"]([^'"]*)['"]/g): from position
\* p on, each key=quote...quote, the value running to the next quote of
\* either kind.
RECURSIVE ParseArgs(_, _, _)
ParseArgs(str, p, args) ==
    IF p > Len(str) THEN args
    ELSE IF /\ p + 2 <= Len(str)
            /\ IsWord(str[p])
            /\ str[p + 1] = "="
            /\ str[p + 2] \in Quotes
            /\ \E q \in (p + 3)..Len(str) : str[q] \in Quotes
         THEN LET q == Min({q \in (p + 3)..Len(str) : str[q] \in Quotes})
              IN  ParseArgs(str, q + 1, Assign(args, str[p], SubSeq(str, p + 3, q - 1)))
         ELSE ParseArgs(str, p + 1, args)

FirstPart(result) ==
    IF /\ result.finishReason = "UNEXPECTED_TOOL_CALL"
       /\ result.finishMessage.present
       /\ MatchCall(result.finishMessage.text).matched
    THEN LET match == MatchCall(result.finishMessage.text)
         IN  [kind |-> "functionCall", name |-> match.fnName,
              args |-> ParseArgs(match.argsStr, 1, EmptyArgs), text |-> << >>]
    ELSE result.part

\* The first part of every result the model can give, computed once.
FirstParts == [r \in ModelResults \cup {NoResult} |-> FirstPart(r)]

ResponseBranchAllHeld(part) ==
    IF part.kind = "functionCall" THEN "chat_task" ELSE "chat_text"

ResponseBranchSwapped(part) ==
    IF part.kind = "functionCall" /\ part.name = "search_vertex_docs" THEN "chat_task"
    ELSE IF part.kind = "functionCall" /\ part.name = "send_email"
         THEN "chat_tool"
         ELSE "chat_text"

\* Lines 592-651: what the handler does with the part: hold send_email for
\* approval, run search_vertex_docs, anything else is answered as text.
ResponseBranch(part) ==
    IF part.kind = "functionCall" /\ part.name = "send_email" THEN "chat_task"
    ELSE IF part.kind = "functionCall" /\ part.name = "search_vertex_docs"
         THEN "chat_tool"
         ELSE "chat_text"

\* The synchronous code from RESPONSE HANDLING to the next await; the mock
\* execution of the safe tool (line 630) happens here.
Respond(h, result) ==
    LET part == FirstParts[result]
        next == ResponseBranch(part)
    IN  /\ hs' = [hs EXCEPT ![h].pc = next, ![h].result = result]
        /\ toolExecs' = IF next = "chat_tool"
                        THEN Append(toolExecs, [tool |-> part.name, task |-> 0])
                        ELSE toolExecs

ChatSendMessageGated(h, r) ==
    /\ At(h, "chat_model")
    /\ r.part.kind = "functionCall" => r.part.name \in OfferedTools(Data(h).agentId)
    /\ IF StopActive(emergency_stop)
       THEN /\ bus' = Ack(bus, hs[h].m)
            /\ hs' = Finish(h)
            /\ UNCHANGED << modelCalls, toolExecs >>
       ELSE /\ modelCalls' = modelCalls + 1
            /\ bus' = bus
            /\ IF Data(h).dbMessageId # 0
               THEN /\ hs' = [hs EXCEPT ![h].pc = "chat_cost", ![h].result = r]
                    /\ UNCHANGED toolExecs
               ELSE Respond(h, r)
    /\ UNCHANGED << adminVars, tasks, messages, usageLogs, spans, emergency_stop,
                    publishing, apiLast, apiCalls, faults >>

\* Lines 521-551: chat.sendMessage resolves with r; the cost is computed; with
\* a dbMessageId the cost update is awaited next.
ChatSendMessage(h, r) ==
    /\ At(h, "chat_model")
    /\ r.part.kind = "functionCall" => r.part.name \in OfferedTools(Data(h).agentId)
    /\ modelCalls' = modelCalls + 1
    /\ IF Data(h).dbMessageId # 0
       THEN /\ hs' = [hs EXCEPT ![h].pc = "chat_cost", ![h].result = r]
            /\ UNCHANGED toolExecs
       ELSE Respond(h, r)
    /\ UNCHANGED << adminVars, tasks, messages, usageLogs, spans, emergency_stop, bus,
                    publishing, apiLast, apiCalls, faults >>

ChatSaveCostRewrites(h) ==
    /\ At(h, "chat_cost")
    /\ IF Data(h).dbMessageId \in 1..Len(messages)
       THEN /\ messages' = [messages EXCEPT ![Data(h).dbMessageId].costed = TRUE,
                                            ![Data(h).dbMessageId].content = << >>]
            /\ Respond(h, hs[h].result)
            /\ UNCHANGED bus
       ELSE /\ bus' = Nack(bus, hs[h].m)
            /\ hs' = Finish(h)
            /\ UNCHANGED << messages, toolExecs >>
    /\ UNCHANGED << adminVars, tasks, usageLogs, spans, emergency_stop, modelCalls,
                    publishing, apiLast, apiCalls, faults >>

\* Lines 541-548: prisma.message.update on the user message; an id that
\* names no row makes it throw, and the catch block nacks.
ChatSaveCost(h) ==
    /\ At(h, "chat_cost")
    /\ IF Data(h).dbMessageId \in 1..Len(messages)
       THEN /\ messages' = [messages EXCEPT ![Data(h).dbMessageId].costed = TRUE]
            /\ Respond(h, hs[h].result)
            /\ UNCHANGED bus
       ELSE /\ bus' = Nack(bus, hs[h].m)
            /\ hs' = Finish(h)
            /\ UNCHANGED << messages, toolExecs >>
    /\ UNCHANGED << adminVars, tasks, usageLogs, spans, emergency_stop, modelCalls,
                    publishing, apiLast, apiCalls, faults >>

\* Lines 601-609: prisma.task.create, status PENDING, the call's arguments
\* as inputPayload.
NewTaskDone(agentId, args, traceId) ==
    [status |-> "COMPLETED", agentId |-> agentId, hasPayload |-> TRUE,
     inputPayload |-> args, traceId |-> traceId]

NewTask(agentId, args, traceId) ==
    [status |-> "PENDING", agentId |-> agentId, hasPayload |-> TRUE,
     inputPayload |-> args, traceId |-> traceId]

ChatCreateTask(h) ==
    /\ At(h, "chat_task")
    /\ tasks' = Append(tasks, NewTask(Data(h).agentId, FirstParts[hs[h].result].args,
                                      Data(h).traceId))
    /\ hs' = [hs EXCEPT ![h].pc = "chat_hold", ![h].task = Len(tasks) + 1]
    /\ UNCHANGED << adminVars, messages, usageLogs, spans, emergency_stop, bus, toolExecs, modelCalls,
                    publishing, apiLast, apiCalls, faults >>

\* The last await of a CHAT branch: one assistant message, then ack.
Reply(h, kind, ref, content) ==
    /\ messages' = Append(messages,
                          AssistantMessage(Data(h).agentId, kind, ref, TRUE, content))
    /\ bus' = Ack(bus, hs[h].m)
    /\ hs' = Finish(h)
    /\ UNCHANGED << adminVars, tasks, usageLogs, spans, emergency_stop, toolExecs, modelCalls,
                    publishing, apiLast, apiCalls, faults >>

\* Lines 612-624: "[System] Usage of tool ... requires Admin Approval. Task <id> created."
ChatHoldMessage(h) == At(h, "chat_hold") /\ Reply(h, "hold", hs[h].task, HoldText)

ChatToolMessageSilent(h) ==
    /\ At(h, "chat_tool")
    /\ bus' = Ack(bus, hs[h].m)
    /\ hs' = Finish(h)
    /\ UNCHANGED << adminVars, tasks, messages, usageLogs, spans, emergency_stop, toolExecs,
                    modelCalls, publishing, apiLast, apiCalls, faults >>

\* Lines 636-646: "(Tool: search_vertex_docs) <output>"
ChatToolMessage(h) == At(h, "chat_tool") /\ Reply(h, "tool", 0, ToolText)

\* Line 651: firstPart?.text || "I'm sorry, I couldn't generate a response."
ResponseText(part) == IF part.text # << >> THEN part.text ELSE Apology

\* Lines 651-665: the text of the part, or the apology.
ChatTextMessage(h) ==
    At(h, "chat_text") /\ Reply(h, "text", 0, ResponseText(FirstParts[hs[h].result]))

\* An awaited call rejects: the catch block nacks (lines 671-674).
AwaitPcs == { "resume_find", "resume_update", "resume_agent", "resume_notify",
              "chat_safety", "chat_agent", "chat_history", "chat_model",
              "chat_cost", "chat_task", "chat_hold", "chat_tool", "chat_text" }

Throw(h) ==
    /\ hs[h].pc \in AwaitPcs
    /\ faults < MaxFaults
    /\ faults' = faults + 1
    /\ bus' = Nack(bus, hs[h].m)
    /\ hs' = Finish(h)
    /\ UNCHANGED << adminVars, tasks, messages, usageLogs, spans, emergency_stop, toolExecs, modelCalls,
                    publishing, apiLast, apiCalls >>

\* ------------------------------------------------------------ specification
Next ==
    \/ \E a \in AgentIds : ApiChat(a)
    \/ \E active \in BOOLEAN : ApiSetEmergency(active)
    \/ \E id \in 1..(Len(tasks) + 1) : ApiApproveUpdate(id)
    \/ \E i \in 1..Len(publishing) : ApiApprovePublish(i)
    \/ \E i \in 1..Len(publishing) : ApiApprovePublishFails(i)
    \/ \E id \in 1..(Len(tasks) + 1) : ApiReject(id)
    \/ \E h \in Handlers, m \in 1..Len(bus) : Receive(h, m)
    \/ \E h \in Handlers : ResumeFindTask(h)
    \/ \E h \in Handlers : ResumeUpdateTask(h)
    \/ \E h \in Handlers : ResumeFindAgent(h)
    \/ \E h \in Handlers : ResumeNotify(h)
    \/ \E h \in Handlers : ChatSafetyCheck(h)
    \/ \E h \in Handlers : ChatFindAgent(h)
    \/ \E h \in Handlers : ChatHistory(h)
    \/ \E h \in Handlers, r \in ModelResults : ChatSendMessage(h, r)
    \/ \E h \in Handlers : ChatSaveCost(h)
    \/ \E h \in Handlers : ChatCreateTask(h)
    \/ \E h \in Handlers : ChatHoldMessage(h)
    \/ \E h \in Handlers : ChatToolMessage(h)
    \/ \E h \in Handlers : ChatTextMessage(h)
    \/ \E h \in Handlers : Throw(h)

Spec == Init /\ [][Next]_vars

\* The chat API and the worker on a topic that other services publish to as
\* well; RESUME events come from those publishers.
NextBus ==
    \/ \E body \in ExternalBodies : PublishExternal(body)
    \/ \E a \in AgentIds : ApiChat(a)
    \/ \E active \in BOOLEAN : ApiSetEmergency(active)
    \/ \E h \in Handlers, m \in 1..Len(bus) : Receive(h, m)
    \/ \E h \in Handlers : ResumeFindTask(h)
    \/ \E h \in Handlers : ResumeUpdateTask(h)
    \/ \E h \in Handlers : ResumeFindAgent(h)
    \/ \E h \in Handlers : ResumeNotify(h)
    \/ \E h \in Handlers : ChatSafetyCheck(h)
    \/ \E h \in Handlers : ChatFindAgent(h)
    \/ \E h \in Handlers : ChatHistory(h)
    \/ \E h \in Handlers, r \in ModelResults : ChatSendMessage(h, r)
    \/ \E h \in Handlers : ChatSaveCost(h)
    \/ \E h \in Handlers : ChatCreateTask(h)
    \/ \E h \in Handlers : ChatHoldMessage(h)
    \/ \E h \in Handlers : ChatToolMessage(h)
    \/ \E h \in Handlers : ChatTextMessage(h)
    \/ \E h \in Handlers : Throw(h)

SpecBus == Init /\ [][NextBus]_vars

\* The worker and the governance API with the dashboard being polled.
NextDashboard ==
    \/ \E zombies \in SUBSET StaleCandidates : ApiDashboardStats(zombies)
    \/ \E a \in AgentIds : ApiChat(a)
    \/ \E id \in 1..(Len(tasks) + 1) : ApiApproveUpdate(id)
    \/ \E i \in 1..Len(publishing) : ApiApprovePublish(i)
    \/ \E i \in 1..Len(publishing) : ApiApprovePublishFails(i)
    \/ \E id \in 1..(Len(tasks) + 1) : ApiReject(id)
    \/ \E h \in Handlers, m \in 1..Len(bus) : Receive(h, m)
    \/ \E h \in Handlers : ResumeFindTask(h)
    \/ \E h \in Handlers : ResumeUpdateTask(h)
    \/ \E h \in Handlers : ResumeFindAgent(h)
    \/ \E h \in Handlers : ResumeNotify(h)
    \/ \E h \in Handlers : ChatSafetyCheck(h)
    \/ \E h \in Handlers : ChatFindAgent(h)
    \/ \E h \in Handlers : ChatHistory(h)
    \/ \E h \in Handlers, r \in ModelResults : ChatSendMessage(h, r)
    \/ \E h \in Handlers : ChatSaveCost(h)
    \/ \E h \in Handlers : ChatCreateTask(h)
    \/ \E h \in Handlers : ChatHoldMessage(h)
    \/ \E h \in Handlers : ChatToolMessage(h)
    \/ \E h \in Handlers : ChatTextMessage(h)
    \/ \E h \in Handlers : Throw(h)

SpecDashboard == Init /\ [][NextDashboard]_vars

\* The chat path on a Message table that earlier conversations have filled:
\* n rows, all of agent a1 but row k, user and assistant turns alternating.
MaxSeeded == 11

Seed(n, k) ==
    [i \in 1..n |->
        [agentId |-> IF i = k THEN "a2" ELSE "a1",
         role |-> IF i % 2 = 1 THEN "user" ELSE "assistant",
         kind |-> IF i % 2 = 1 THEN "user" ELSE "text",
         ref |-> 0, costed |-> TRUE, content |-> << "hi" >>]]

InitHistory ==
    /\ messages \in {Seed(n, k) : n \in 0..MaxSeeded, k \in 0..MaxSeeded}
    /\ tasks = << >>
    /\ usageLogs = << >>
    /\ spans = << >>
    /\ emergency_stop = FALSE
    /\ bus = << >>
    /\ hs = [h \in Handlers |-> Idle]
    /\ toolExecs = << >>
    /\ modelCalls = 0
    /\ publishing = << >>
    /\ apiLast = NoReply
    /\ apiCalls = 0
    /\ faults = 0
    /\ prompts = [a \in AgentIds |-> FirstPrompt]
    /\ promptHistory = << >>
    /\ updating = << >>
    /\ stats = NoStats

NextHistory ==
    \/ \E a \in AgentIds : ApiChat(a)
    \/ \E h \in Handlers, m \in 1..Len(bus) : Receive(h, m)
    \/ \E h \in Handlers : ChatSafetyCheck(h)
    \/ \E h \in Handlers : ChatFindAgent(h)
    \/ \E h \in Handlers : ChatHistory(h)
    \/ \E h \in Handlers, r \in ModelResults : ChatSendMessage(h, r)
    \/ \E h \in Handlers : ChatSaveCost(h)
    \/ \E h \in Handlers : ChatCreateTask(h)
    \/ \E h \in Handlers : ChatHoldMessage(h)
    \/ \E h \in Handlers : ChatToolMessage(h)
    \/ \E h \in Handlers : ChatTextMessage(h)
    \/ \E h \in Handlers : Throw(h)

SpecHistory == InitHistory /\ [][NextHistory]_vars


\* ------------------------------------------------------------ ingress worker
\* The stand-alone orchestrator worker (unnamed/part_005): it subscribes to
\* the topic the ingress services publish to, routes a signal to the LIVE agent
\* whose role is the signal's source, creates a Task for approval, and on a
\* RESUME event calls the tool on the MCP hub.  One action per awaited call.

\* Token counts booked per resume execution and per routed signal.
ExecutionTokens == 150
ToolCallTokens == 120

\* Events on the ingress topic: a body that is not JSON, an event of unknown
\* type from slack, signals from slack and from mail, and RESUME events: not
\* approved, naming no task, naming no agent, and naming a tool.
IngressBodies ==
    { Body("GARBAGE", "", 0, "", 0, 0),
      [Body("PING", "", 0, "", 0, 0) EXCEPT !.source = "slack"],
      [Body("", "", 0, "", 0, 0) EXCEPT !.source = "slack"],
      [Body("", "", 0, "", 0, 0) EXCEPT !.source = "mail"],
      Body("RESUME", "a1", 1, "REJECTED", 0, 0),
      Body("RESUME", "a1", 0, "APPROVED", 0, 0),
      Body("RESUME", NoAgent, 1, "APPROVED", 0, 0),
      [Body("RESUME", "a1", 1, "APPROVED", 0, 0) EXCEPT !.tool = "send_email"] }

PublishIngress(body) ==
    /\ BusRoom
    /\ Cardinality({m \in 1..Len(bus) : bus[m].source = "ingress"}) < MaxExternal
    /\ bus' = Publish(bus, [body EXCEPT !.traceId = Len(bus) + 1], "ingress")
    /\ UNCHANGED << adminVars, tasks, messages, usageLogs, spans, emergency_stop, hs, toolExecs,
                    modelCalls, publishing, apiLast, apiCalls, faults >>

\* Lines 48-56, 134-143, 164-173, 190-199: prisma.traceSpan.create; status
\* and durationMs are not given for the root span.
Span(operation, parent, timed) ==
    [operation |-> operation, parent |-> parent, status |-> "unset", timed |-> timed]

\* Lines 25-46: a delivery, up to the root span's create.  A body that is not
\* JSON throws with traceId still empty: the catch block only acks.
IngressReceive(h, m) ==
    /\ At(h, "idle")
    /\ m \in 1..Len(bus)
    /\ bus[m].state = "queued"
    /\ LET delivered == Deliver(bus, m)
       IN  IF ~Parses(bus[m].data)
           THEN bus' = Ack(delivered, m) /\ UNCHANGED hs
           ELSE /\ bus' = delivered
                /\ hs' = [hs EXCEPT ![h] = [Idle EXCEPT !.pc = "in_root", !.m = m]]
    /\ UNCHANGED << adminVars, tasks, messages, usageLogs, spans, emergency_stop, toolExecs,
                    modelCalls, publishing, apiLast, apiCalls, faults >>

\* Lines 48-59, 156-159: the root span row; then dispatch on data.type.
IngressRootSpan(h) ==
    /\ At(h, "in_root")
    /\ spans' = Append(spans, Span("process_message", 0, FALSE))
    /\ hs' = [hs EXCEPT ![h].span = Len(spans) + 1,
                        ![h].pc = IF Data(h).type = "RESUME"
                                  THEN "in_resume_agent" ELSE "in_lookup"]
    /\ UNCHANGED << adminVars, tasks, messages, usageLogs, emergency_stop, bus, toolExecs,
                    modelCalls, publishing, apiLast, apiCalls, faults >>

\* Lines 63-72: prisma.agent.findUnique({ where: { id: data.agentId } });
\* without an agent: ack and return.  Neither data.action nor the Task named
\* by data.taskId is looked at.
IngressResumeAgent(h) ==
    /\ At(h, "in_resume_agent")
    /\ IF Data(h).agentId \in AgentIds
       THEN /\ hs' = [hs EXCEPT ![h].pc = "in_fetch", ![h].agent = Data(h).agentId]
            /\ UNCHANGED bus
       ELSE bus' = Ack(bus, hs[h].m) /\ hs' = Finish(h)
    /\ UNCHANGED << adminVars, tasks, messages, usageLogs, spans, emergency_stop, toolExecs,
                    modelCalls, publishing, apiLast, apiCalls, faults >>

\* Line 83: data.tool || 'search_vertex_docs'
IngressTool(data) == IF data.tool # "" THEN data.tool ELSE "search_vertex_docs"

\* Lines 108-115: the call_tool request to the MCP hub resolves.
IngressFetch(h) ==
    /\ At(h, "in_fetch")
    /\ toolExecs' = Append(toolExecs,
                           [tool |-> IngressTool(Data(h)), task |-> Data(h).taskId])
    /\ hs' = Goto(h, "in_usage")
    /\ UNCHANGED << adminVars, tasks, messages, usageLogs, spans, emergency_stop, bus,
                    modelCalls, publishing, apiLast, apiCalls, faults >>

\* Lines 118-126: prisma.usageLog.create for the execution.
IngressUsage(h) ==
    /\ At(h, "in_usage")
    /\ usageLogs' = Append(usageLogs, [agentId |-> Data(h).agentId,
                                       action |-> "tool_execution",
                                       tokens |-> ExecutionTokens])
    /\ hs' = Goto(h, "in_resume_span")
    /\ UNCHANGED << adminVars, tasks, messages, spans, emergency_stop, bus, toolExecs,
                    modelCalls, publishing, apiLast, apiCalls, faults >>

\* Lines 105-131: the request to the hub, or the usage log write, rejects
\* inside the inner try: the error is logged and the handler goes on.
IngressToolCallFails(h) ==
    /\ At(h, "in_fetch") \/ At(h, "in_usage")
    /\ faults < MaxFaults
    /\ faults' = faults + 1
    /\ hs' = Goto(h, "in_resume_span")
    /\ UNCHANGED << adminVars, tasks, messages, usageLogs, spans, emergency_stop, bus, toolExecs,
                    modelCalls, publishing, apiLast, apiCalls >>

\* Lines 134-143: the resume_agent span.
IngressResumeSpan(h) ==
    /\ At(h, "in_resume_span")
    /\ spans' = Append(spans, Span("resume_agent", hs[h].span, TRUE))
    /\ hs' = Goto(h, "in_finish")
    /\ UNCHANGED << adminVars, tasks, messages, usageLogs, emergency_stop, bus, toolExecs,
                    modelCalls, publishing, apiLast, apiCalls, faults >>

\* Lines 158-161: prisma.agent.findFirst({ where: { role: source, status: 'LIVE' } }).
LiveAgentFor(source) ==
    LET found == {a \in AgentIds : AgentRole(a) = source /\ AgentStatus(a) = "LIVE"}
    IN  IF found = {} THEN "" ELSE CHOOSE a \in found : TRUE

IngressLookup(h) ==
    /\ At(h, "in_lookup")
    /\ hs' = [hs EXCEPT ![h].pc = "in_lookup_span",
                        ![h].agent = LiveAgentFor(Data(h).source)]
    /\ UNCHANGED << adminVars, tasks, messages, usageLogs, spans, emergency_stop, bus, toolExecs,
                    modelCalls, publishing, apiLast, apiCalls, faults >>

\* Lines 164-175, 212-214: the agent_lookup span; then the branch on agent.
IngressLookupSpan(h) ==
    /\ At(h, "in_lookup_span")
    /\ spans' = Append(spans, Span("agent_lookup", hs[h].span, TRUE))
    /\ hs' = Goto(h, IF hs[h].agent # "" THEN "in_task" ELSE "in_finish")
    /\ UNCHANGED << adminVars, tasks, messages, usageLogs, emergency_stop, bus, toolExecs,
                    modelCalls, publishing, apiLast, apiCalls, faults >>

\* Lines 180-186: prisma.task.create with description, inputPayload (the
\* whole event) and agentId; the status is the column's default.
IngressTask(agentId) ==
    [status |-> "PENDING", agentId |-> agentId, hasPayload |-> TRUE,
     inputPayload |-> [source |-> << "slack" >>], traceId |-> 0]

IngressCreateTask(h) ==
    /\ At(h, "in_task")
    /\ tasks' = Append(tasks, IngressTask(hs[h].agent))
    /\ hs' = [hs EXCEPT ![h].pc = "in_task_span", ![h].task = Len(tasks) + 1]
    /\ UNCHANGED << adminVars, messages, usageLogs, spans, emergency_stop, bus, toolExecs,
                    modelCalls, publishing, apiLast, apiCalls, faults >>

\* Lines 190-199: the task_create span.
IngressTaskSpan(h) ==
    /\ At(h, "in_task_span")
    /\ spans' = Append(spans, Span("task_create", hs[h].span, TRUE))
    /\ hs' = Goto(h, "in_task_usage")
    /\ UNCHANGED << adminVars, tasks, messages, usageLogs, emergency_stop, bus, toolExecs,
                    modelCalls, publishing, apiLast, apiCalls, faults >>

\* Lines 202-210: prisma.usageLog.create for the routed signal.
IngressTaskUsage(h) ==
    /\ At(h, "in_task_usage")
    /\ usageLogs' = Append(usageLogs, [agentId |-> hs[h].agent, action |-> "tool_call",
                                       tokens |-> ToolCallTokens])
    /\ hs' = Goto(h, "in_finish")
    /\ UNCHANGED << adminVars, tasks, messages, spans, emergency_stop, bus, toolExecs,
                    modelCalls, publishing, apiLast, apiCalls, faults >>

\* Lines 146-153 and 217-224: the root span's duration is set, then ack.
IngressFinish(h) ==
    /\ At(h, "in_finish")
    /\ spans' = [spans EXCEPT ![hs[h].span].timed = TRUE]
    /\ bus' = Ack(bus, hs[h].m)
    /\ hs' = Finish(h)
    /\ UNCHANGED << adminVars, tasks, messages, usageLogs, emergency_stop, toolExecs,
                    modelCalls, publishing, apiLast, apiCalls, faults >>

\* Awaited calls of the outer try block.
IngressAwaitPcs == { "in_root", "in_resume_agent", "in_resume_span", "in_lookup",
                     "in_lookup_span", "in_task", "in_task_span", "in_task_usage",
                     "in_finish" }

\* Lines 225-226: an awaited call of the outer try rejects: the catch block.
IngressThrow(h) ==
    /\ hs[h].pc \in IngressAwaitPcs
    /\ faults < MaxFaults
    /\ faults' = faults + 1
    /\ hs' = Goto(h, "in_catch")
    /\ UNCHANGED << adminVars, tasks, messages, usageLogs, spans, emergency_stop, bus, toolExecs,
                    modelCalls, publishing, apiLast, apiCalls >>

\* Lines 228-236: the root span is marked ERROR (a failure of that update is
\* swallowed: the row does not exist when its create was what failed), then
\* message.ack().
IngressCatch(h) ==
    /\ At(h, "in_catch")
    /\ spans' = IF hs[h].span # 0
                THEN [spans EXCEPT ![hs[h].span].status = "ERROR",
                                   ![hs[h].span].timed = TRUE]
                ELSE spans
    /\ bus' = Ack(bus, hs[h].m)
    /\ hs' = Finish(h)
    /\ UNCHANGED << adminVars, tasks, messages, usageLogs, emergency_stop, toolExecs,
                    modelCalls, publishing, apiLast, apiCalls, faults >>

\* The ingress worker with the governance API and the ingress publishers.
NextIngress ==
    \/ \E body \in IngressBodies : PublishIngress(body)
    \/ \E id \in 1..(Len(tasks) + 1) : ApiApproveUpdate(id)
    \/ \E i \in 1..Len(publishing) : ApiApprovePublish(i)
    \/ \E i \in 1..Len(publishing) : ApiApprovePublishFails(i)
    \/ \E id \in 1..(Len(tasks) + 1) : ApiReject(id)
    \/ \E h \in Handlers, m \in 1..Len(bus) : IngressReceive(h, m)
    \/ \E h \in Handlers : IngressRootSpan(h)
    \/ \E h \in Handlers : IngressResumeAgent(h)
    \/ \E h \in Handlers : IngressFetch(h)
    \/ \E h \in Handlers : IngressUsage(h)
    \/ \E h \in Handlers : IngressToolCallFails(h)
    \/ \E h \in Handlers : IngressResumeSpan(h)
    \/ \E h \in Handlers : IngressLookup(h)
    \/ \E h \in Handlers : IngressLookupSpan(h)
    \/ \E h \in Handlers : IngressCreateTask(h)
    \/ \E h \in Handlers : IngressTaskSpan(h)
    \/ \E h \in Handlers : IngressTaskUsage(h)
    \/ \E h \in Handlers : IngressFinish(h)
    \/ \E h \in Handlers : IngressThrow(h)
    \/ \E h \in Handlers : IngressCatch(h)

SpecIngress == Init /\ [][NextIngress]_vars

\* ------------------------------------------------------- agent admin API
MaxUpdates == 3

\* Rows of the PromptHistory table that belong to agent a.
HistoryOf(a) == {i \in 1..Len(promptHistory) : promptHistory[i].agentId = a}

\* PUT /api/agents/:id, lines 139-155: the agent is read with its history,
\* and the stored prompt is compared with the submitted one.  No agent: 404.
ApiAgentRead(a, systemPrompt) ==
    /\ Len(updating) < MaxUpdates
    /\ updating' = Append(updating,
          IF a \in AgentIds
          THEN [agent |-> a, systemPrompt |-> systemPrompt,
                currentPrompt |-> prompts[a],
                historyLength |-> Cardinality(HistoryOf(a)),
                pc |-> IF prompts[a] # systemPrompt THEN "history" ELSE "update",
                code |-> 0]
          ELSE [agent |-> a, systemPrompt |-> systemPrompt, currentPrompt |-> "",
                historyLength |-> 0, pc |-> "done", code |-> 404])
    /\ UNCHANGED << prompts, promptHistory, stats, tasks, messages, usageLogs, spans,
                    emergency_stop, bus, hs, toolExecs, modelCalls, publishing, apiLast,
                    apiCalls, faults >>

\* Lines 155-165: prisma.promptHistory.create with the prompt that was read
\* and version = (number of history rows that were read) + 1.
ApiAgentHistory(i) ==
    /\ i \in 1..Len(updating)
    /\ updating[i].pc = "history"
    /\ promptHistory' = Append(promptHistory,
                               [agentId |-> updating[i].agent,
                                prompt |-> updating[i].currentPrompt,
                                version |-> updating[i].historyLength + 1])
    /\ updating' = [updating EXCEPT ![i].pc = "update"]
    /\ UNCHANGED << prompts, stats, tasks, messages, usageLogs, spans,
                    emergency_stop, bus, hs, toolExecs, modelCalls, publishing, apiLast,
                    apiCalls, faults >>

\* Lines 169-191: prisma.agent.update with the submitted fields; of these the
\* model keeps the system prompt.
ApiAgentUpdate(i) ==
    /\ i \in 1..Len(updating)
    /\ updating[i].pc = "update"
    /\ prompts' = [prompts EXCEPT ![updating[i].agent] = updating[i].systemPrompt]
    /\ updating' = [updating EXCEPT ![i].pc = "done", ![i].code = 200]
    /\ UNCHANGED << promptHistory, stats, tasks, messages, usageLogs, spans,
                    emergency_stop, bus, hs, toolExecs, modelCalls, publishing, apiLast,
                    apiCalls, faults >>

\* Lines 192-195: an awaited call rejects: 500.
ApiAgentFails(i) ==
    /\ i \in 1..Len(updating)
    /\ updating[i].pc \in {"history", "update"}
    /\ faults < MaxFaults
    /\ faults' = faults + 1
    /\ updating' = [updating EXCEPT ![i].pc = "done", ![i].code = 500]
    /\ UNCHANGED << prompts, promptHistory, stats, tasks, messages, usageLogs, spans,
                    emergency_stop, bus, hs, toolExecs, modelCalls, publishing, apiLast,
                    apiCalls >>

NextAgents ==
    \/ \E a \in AgentIds \cup {NoAgent}, systemPrompt \in Prompts :
          ApiAgentRead(a, systemPrompt)
    \/ \E i \in 1..Len(updating) : ApiAgentHistory(i)
    \/ \E i \in 1..Len(updating) : ApiAgentUpdate(i)
    \/ \E i \in 1..Len(updating) : ApiAgentFails(i)

SpecAgents == Init /\ [][NextAgents]_vars

\* ------------------------------------------------------------------ claims
ChatEvents == {m \in 1..Len(bus) : bus[m].data.type = "CHAT"}

Executions(t) == {i \in 1..Len(toolExecs) : toolExecs[i].task = t}

\* The worker has taken delivery of a RESUME event with action APPROVED for t.
ResumeReceived(t) ==
    \E m \in 1..Len(bus) :
        /\ bus[m].data.type = "RESUME"
        /\ bus[m].data.action = "APPROVED"
        /\ bus[m].data.taskId = t
        /\ bus[m].attempts > 0

\* C1: a Task created for a send_email call is not COMPLETED, and its action
\* is not executed, before the worker has received a RESUME event with
\* action APPROVED for it.
C1_NoCompletionBeforeResume ==
    \A t \in TaskIds :
        (tasks[t].status = "COMPLETED" \/ Executions(t) # {}) => ResumeReceived(t)

C1_Witness ==
    \E t \in TaskIds :
        /\ tasks[t].status = "COMPLETED"
        /\ Executions(t) # {}
        /\ tasks[t].inputPayload = EmailArgs

SendEmailCall(r) ==
    FirstPart(r).kind = "functionCall" /\ FirstPart(r).name = "send_email"

Steps(h) == hs'[h] # hs[h]

\* C2: no step of a handler that is handling a CHAT event whose model
\* response is a send_email function call executes a tool.
C2_NoExecutionWhileGated ==
    [][\A h \in Handlers :
        ( /\ Steps(h)
          /\ hs[h].m # 0
          /\ Data(h).type = "CHAT"
          /\ SendEmailCall(hs[h].result) \/ SendEmailCall(hs'[h].result) )
        => toolExecs' = toolExecs]_vars

C2_Witness ==
    \E h \in Handlers :
        /\ At(h, "chat_hold")
        /\ SendEmailCall(hs[h].result)
        /\ tasks[hs[h].task].status = "PENDING"

TasksOf(m) == {t \in TaskIds : tasks[t].traceId = bus[m].data.traceId}

HoldsOf(m) ==
    {i \in 1..Len(messages) : messages[i].kind = "hold" /\ messages[i].ref \in TasksOf(m)}

\* C3: over all its deliveries a CHAT event answered by a send_email call
\* produces exactly one Task and exactly one approval-required Message:
\* never two of either, and an approval notice only with its one Task.
C3_OneTaskPerEvent ==
    \A m \in ChatEvents :
        /\ Cardinality(TasksOf(m)) <= 1
        /\ Cardinality(HoldsOf(m)) <= 1
        /\ (bus[m].state = "acked" /\ HoldsOf(m) # {}) => Cardinality(TasksOf(m)) = 1

LegalOrder ==
    { << "PENDING", "APPROVED" >>, << "PENDING", "REJECTED" >>,
      << "APPROVED", "COMPLETED" >>, << "PENDING", "COMPLETED" >> }

\* C4: the status values of a Task follow PENDING, APPROVED, COMPLETED or
\* PENDING, REJECTED, possibly skipping values, never any other order.
C4_StatusOrder ==
    [][\A t \in TaskIds :
        tasks'[t].status # tasks[t].status
        => << tasks[t].status, tasks'[t].status >> \in LegalOrder]_vars

\* C5: RESUME handling moves a Task to COMPLETED only from APPROVED.
C5_CompletedOnlyFromApproved ==
    [][\A t \in TaskIds :
        (tasks[t].status # "COMPLETED" /\ tasks'[t].status = "COMPLETED")
        => tasks[t].status = "APPROVED"]_vars

\* C6: a REJECTED or COMPLETED Task record never changes again.
C6_TerminalImmutable ==
    [][\A t \in TaskIds :
        tasks[t].status \in {"REJECTED", "COMPLETED"} => tasks'[t] = tasks[t]]_vars

\* C7: a transition other than PENDING->APPROVED, PENDING->REJECTED or
\* APPROVED->COMPLETED, when attempted, leaves the record as it was and is
\* answered with an error: by the API in its reply, by the worker by not
\* acknowledging the event.
C7_IllegalTransitionRefused ==
    [][ /\ ( /\ apiCalls' = apiCalls + 1
             /\ apiLast'.id \in TaskIds
             /\ tasks[apiLast'.id].status # "PENDING" )
           => (tasks' = tasks /\ apiLast'.code \notin {0, 200})
        /\ \A h \in Handlers :
             ( /\ At(h, "resume_update")
               /\ Steps(h)
               /\ tasks[hs[h].task].status # "APPROVED" )
             => (tasks' = tasks /\ bus'[hs[h].m].state # "acked" /\ hs'[h] = Idle)
      ]_vars

\* C8: handling a RESUME event for a Task that is already COMPLETED when it
\* is loaded writes no Message, no UsageLog and executes nothing.
C8_ResumeOfCompletedIsNoOp ==
    [][\A h \in Handlers :
        ( /\ Steps(h)
          /\ hs[h].m # 0
          /\ Data(h).type = "RESUME"
          /\ hs[h].loaded = "COMPLETED" \/ hs'[h].loaded = "COMPLETED" )
        => /\ messages' = messages
           /\ usageLogs' = usageLogs
           /\ toolExecs' = toolExecs]_vars

\* C9: two handlers that have both loaded the same Task before either has
\* written COMPLETED have executed its action at most once between them.
C9_ConcurrentResumeExecutesOnce ==
    \A h1, h2 \in Handlers :
        ( /\ h1 # h2
          /\ At(h1, "resume_update") /\ At(h2, "resume_update")
          /\ hs[h1].task = hs[h2].task )
        => Cardinality(Executions(hs[h1].task)) <= 1

\* C10: a CHAT handler that reads the emergency flag as active writes
\* nothing, calls neither model nor tool, and acknowledges the event.
C10_StopDropsChat ==
    [][\A h \in Handlers :
        ( /\ At(h, "chat_safety")
          /\ Steps(h)
          /\ faults' = faults
          /\ emergency_stop )
        => /\ messages' = messages
           /\ usageLogs' = usageLogs
           /\ tasks' = tasks
           /\ modelCalls' = modelCalls
           /\ toolExecs' = toolExecs
           /\ bus'[hs[h].m].state = "acked"
           /\ hs'[h] = Idle]_vars

C10_Witness ==
    \E m \in ChatEvents :
        /\ bus[m].state = "acked"
        /\ emergency_stop
        /\ modelCalls = 0
        /\ Len(messages) = 1

\* C11: the emergency flag plays no part in RESUME handling: whatever its
\* value, an approved RESUME for an existing task with a payload executes the
\* action at the task lookup and writes COMPLETED at the update.
ResumeHandler(h) == hs[h].m # 0 /\ Data(h).type = "RESUME"

C11_ResumeNotGated ==
    [][\A h \in Handlers :
        ( /\ ResumeHandler(h)
          /\ Steps(h)
          /\ faults' = faults
          /\ Data(h).taskId \in TaskIds
          /\ tasks[Data(h).taskId].hasPayload )
        => /\ At(h, "resume_find") =>
                /\ Len(toolExecs') = Len(toolExecs) + 1
                /\ toolExecs'[Len(toolExecs')].task = Data(h).taskId
                /\ hs'[h].pc = "resume_update"
           /\ At(h, "resume_update") =>
                /\ tasks'[Data(h).taskId].status = "COMPLETED"
                /\ bus'[hs[h].m].state = "inflight"]_vars

C11_Witness ==
    \E h \in Handlers :
        /\ ResumeHandler(h)
        /\ At(h, "resume_agent")
        /\ emergency_stop
        /\ tasks[hs[h].task].status = "COMPLETED"
        /\ Executions(hs[h].task) # {}

\* C12: no step of a handler whose CHAT event got a model response other
\* than a send_email call (another tool's call, or text) creates a Task.
ChatHandler(h) == hs[h].m # 0 /\ Data(h).type = "CHAT"

C12_SafeResponseCreatesNoTask ==
    [][\A h \in Handlers :
        ( /\ ChatHandler(h)
          /\ Steps(h)
          /\ LET r == IF hs[h].result # NoResult THEN hs[h].result ELSE hs'[h].result
             IN  r # NoResult /\ ~SendEmailCall(r) )
        => tasks' = tasks]_vars

C12_Witness ==
    /\ tasks = << >>
    /\ \E i \in 1..Len(messages) : messages[i].kind = "tool"
    /\ \E i \in 1..Len(toolExecs) : toolExecs[i].tool = "search_vertex_docs"

\* C13: no step of a handler handling a RESUME event whose action is not
\* APPROVED executes a tool or writes a Task, a Message or a UsageLog, and
\* the step that ends the handling acknowledges the event.
Unapproved(h) == ResumeHandler(h) /\ Data(h).action # "APPROVED"

C13_UnapprovedResumeDropped ==
    [][\A h \in Handlers :
        (Unapproved(h) /\ Steps(h))
        => /\ toolExecs' = toolExecs
           /\ tasks' = tasks
           /\ messages' = messages
           /\ usageLogs' = usageLogs
           /\ hs'[h] = Idle => bus'[hs[h].m].state = "acked"]_vars

\* C14: no step of a handler handling an approved RESUME event that names
\* no Task, or a Task without payload, executes a tool or writes a Task, a
\* Message or a UsageLog, and the event is never made available for
\* redelivery.
Unresolvable(h) ==
    /\ ResumeHandler(h)
    /\ Data(h).action = "APPROVED"
    /\ Data(h).taskId \notin TaskIds \/ ~tasks[Data(h).taskId].hasPayload

C14_MissingTaskResumeDropped ==
    [][\A h \in Handlers :
        (Unresolvable(h) /\ Steps(h) /\ faults' = faults)
        => /\ toolExecs' = toolExecs
           /\ tasks' = tasks
           /\ messages' = messages
           /\ usageLogs' = usageLogs
           /\ bus'[hs[h].m].state \in {"inflight", "acked"}]_vars

\* C15: no step of a handler handling an event whose type is neither CHAT nor
\* RESUME creates or changes a Task, Message, UsageLog or TraceSpan, or calls
\* the model or a tool.
UnknownType(h) == hs[h].m # 0 /\ Data(h).type \notin {"CHAT", "RESUME"}

C15_UnknownTypeHasNoEffect ==
    [][\A h \in Handlers :
        (UnknownType(h) /\ Steps(h))
        => /\ tasks' = tasks
           /\ messages' = messages
           /\ usageLogs' = usageLogs
           /\ spans' = spans
           /\ modelCalls' = modelCalls
           /\ toolExecs' = toolExecs]_vars

\* C16: the handling of a CHAT or RESUME event that ends because an awaited
\* call threw (directly, or from the catch block) leaves the event nacked:
\* queued for redelivery or dead-lettered, not acknowledged.
C16_ErrorNacks ==
    [][\A h \in Handlers :
        ( /\ hs[h].m # 0
          /\ Data(h).type \in {"CHAT", "RESUME"}
          /\ hs'[h] = Idle
          /\ faults' = faults + 1 \/ At(h, "in_catch") )
        => bus'[hs[h].m].state \in {"queued", "dead"}]_vars

\* C17: an event with a data-integrity fault (a body that does not parse, a
\* CHAT naming no agent, a RESUME naming no task) is never nacked: once
\* delivered it is in flight or acknowledged, as long as no awaited call fails.
IntegrityFault(m) ==
    \/ ~Parses(bus[m].data)
    \/ bus[m].data.type = "CHAT" /\ bus[m].data.agentId \notin AgentIds
    \/ bus[m].data.type = "RESUME" /\ bus[m].data.taskId \notin TaskIds

C17_IntegrityFaultAcked ==
    [][\A m \in 1..Len(bus) :
        ( /\ IntegrityFault(m)
          /\ faults' = faults
          /\ bus'[m] # bus[m] )
        => bus'[m].state \in {"inflight", "acked"}]_vars

\* C18: the step in which the tool-execution call of an approved RESUME
\* fails nacks the event.
C18_FailedExecutionNacks ==
    [][\A h \in Handlers :
        ( /\ ResumeHandler(h)
          /\ Data(h).action = "APPROVED"
          /\ At(h, "in_fetch")
          /\ faults' = faults + 1
          /\ Steps(h) )
        => /\ bus'[hs[h].m].state \in {"queued", "dead"}
           /\ hs'[h] = Idle]_vars

\* C19: no event is delivered more than MaxDeliveryAttempts times: after the
\* fifth failed delivery it is dead-lettered, not queued again, and only an
\* event delivered five times is dead-lettered.
C19_AtMostFiveDeliveries ==
    \A m \in 1..Len(bus) :
        /\ bus[m].attempts <= MaxDeliveryAttempts
        /\ bus[m].attempts = MaxDeliveryAttempts => bus[m].state # "queued"
        /\ bus[m].state = "dead" => bus[m].attempts = MaxDeliveryAttempts

C19_Witness ==
    \E m \in 1..Len(bus) :
        /\ bus[m].state = "dead"
        /\ bus[m].attempts = MaxDeliveryAttempts

\* C20: a CHAT handler gets past the agent lookup only for a LIVE agent, and
\* every assistant Message and every Task belongs to a LIVE agent.
C20_OnlyLiveAgentsRouted ==
    /\ \A h \in Handlers :
        (ChatHandler(h) /\ hs[h].pc \notin {"chat_safety", "chat_agent"})
        => /\ Data(h).agentId \in AgentIds
           /\ AgentStatus(Data(h).agentId) = "LIVE"
    /\ \A i \in 1..Len(messages) :
        messages[i].role = "assistant" => AgentStatus(messages[i].agentId) = "LIVE"
    /\ \A t \in TaskIds : AgentStatus(tasks[t].agentId) = "LIVE"

\* C21: the tools offered to the model for a CHAT event are the agent's
\* enabled tools: a handler waiting for the model offered exactly those, a
\* handler creating an approval Task has an agent with send_email enabled,
\* and a handler that ran search_vertex_docs an agent with that tool enabled.
C21_OnlyEnabledToolsOffered ==
    \A h \in Handlers :
        (ChatHandler(h) /\ Data(h).agentId \in AgentIds)
        => LET agent == Data(h).agentId IN
           /\ At(h, "chat_model") => OfferedTools(agent) = AgentTools(agent)
           /\ hs[h].pc \in {"chat_task", "chat_hold"} => "send_email" \in AgentTools(agent)
           /\ At(h, "chat_tool") => "search_vertex_docs" \in AgentTools(agent)

\* C22: a CHAT handling whose model response is a function call to a tool
\* other than send_email ends, when it ends acknowledged, with that tool
\* executed, after one model call, and with the output as the one new
\* assistant Message.
SafeCall(r) == FirstPart(r).kind = "functionCall" /\ FirstPart(r).name # "send_email"

C22_SafeCallExecuted ==
    [][\A h \in Handlers :
        ( /\ ChatHandler(h)
          /\ SafeCall(hs[h].result)
          /\ hs'[h] = Idle
          /\ bus'[hs[h].m].state = "acked" )
        => /\ \E i \in 1..Len(toolExecs) :
                toolExecs[i].tool = FirstPart(hs[h].result).name
           /\ Len(messages') = Len(messages) + 1
           /\ messages'[Len(messages')].kind = "tool"]_vars

\* C23: a response whose finish message writes a call out as
\* print(fn(k1='v1', ...)) is normalized to the function call fn with exactly
\* those arguments, and for send_email the Task created holds them as payload.
Encodes(r) ==
    /\ r.finishReason = "UNEXPECTED_TOOL_CALL"
    /\ r.finishMessage.present
    /\ r.finishMessage.call # NoCall

C23_FallbackCallNormalized ==
    \A h \in Handlers :
        (ChatHandler(h) /\ Encodes(hs[h].result))
        => LET call == hs[h].result.finishMessage.call
               part == FirstPart(hs[h].result)
           IN  /\ part.kind = "functionCall"
               /\ part.name = call.name
               /\ part.args = ArgsOf(call)
               /\ (call.name = "send_email" /\ At(h, "chat_hold"))
                  => tasks[hs[h].task].inputPayload = ArgsOf(call)

\* C24: when no call can be extracted from the finish message, the handling
\* ends acknowledged with one new assistant Message whose content is the raw
\* text of the model.
ExtractionFails(r) ==
    /\ r.finishReason = "UNEXPECTED_TOOL_CALL"
    /\ r.finishMessage.present
    /\ ~MatchCall(r.finishMessage.text).matched

C24_RawTextPersisted ==
    [][\A h \in Handlers :
        ( /\ ChatHandler(h)
          /\ At(h, "chat_text")
          /\ ExtractionFails(hs[h].result)
          /\ hs'[h] = Idle
          /\ faults' = faults )
        => /\ bus'[hs[h].m].state = "acked"
           /\ Len(messages') = Len(messages) + 1
           /\ messages'[Len(messages')].content = hs[h].result.finishMessage.text]_vars

\* C25: the step that acknowledges a CHAT event after the safety check, or a
\* RESUME event, finds a UsageLog written and a root TraceSpan with its
\* duration set.
C25_UsageAndSpanBeforeAck ==
    [][\A h \in Handlers :
        ( /\ hs[h].m # 0
          /\ Data(h).type \in {"CHAT", "RESUME"}
          /\ ~At(h, "chat_safety")
          /\ hs'[h] = Idle
          /\ bus'[hs[h].m].state = "acked" )
        => /\ usageLogs' # << >>
           /\ \E i \in 1..Len(spans') :
                spans'[i].operation = "process_message" /\ spans'[i].timed]_vars

\* C26: after a handling that ended in the catch block, and after the
\* delivery of a body that does not parse, a root TraceSpan of the event has
\* status ERROR and its duration set.
C26_ErrorSpanRecorded ==
    [][/\ \A h \in Handlers :
            (At(h, "in_catch") /\ hs'[h] = Idle)
            => /\ hs[h].span # 0
               /\ spans'[hs[h].span].status = "ERROR"
               /\ spans'[hs[h].span].timed
       /\ \A m \in 1..Len(bus) :
            (~Parses(bus[m].data) /\ bus'[m].attempts = bus[m].attempts + 1)
            => \E i \in 1..Len(spans') :
                /\ spans'[i].operation = "process_message"
                /\ spans'[i].status = "ERROR"
                /\ spans'[i].timed]_vars

\* C27: the tool executed for a RESUME event is the tool that would be
\* executed for the same event with any other value in its tool field.
ToolFields == {"", "send_email", "search_vertex_docs"}

ExecutedFor(h, data) ==
    IF At(h, "in_fetch") THEN IngressTool(data)
    ELSE ResumeTool(tasks[data.taskId].inputPayload)

C27_ExecutionIgnoresEventFields ==
    [][\A h \in Handlers :
        ( /\ ResumeHandler(h)
          /\ Steps(h)
          /\ Len(toolExecs') = Len(toolExecs) + 1 )
        => \A t \in ToolFields :
            toolExecs'[Len(toolExecs')].tool = ExecutedFor(h, [Data(h) EXCEPT !.tool = t])]_vars

\* C28: the step that acknowledges an approved RESUME event for an existing
\* Task with a payload leaves the Task COMPLETED, writes or finds exactly one
\* confirmation Message of the handling, and finds a UsageLog entry for the
\* execution.
C28_AckedResumeIsComplete ==
    [][\A h \in Handlers :
        ( /\ ResumeHandler(h)
          /\ Data(h).action = "APPROVED"
          /\ Data(h).taskId \in TaskIds
          /\ tasks[Data(h).taskId].hasPayload
          /\ hs'[h] = Idle
          /\ bus'[hs[h].m].state = "acked" )
        => /\ tasks'[Data(h).taskId].status = "COMPLETED"
           /\ Len(messages') = Len(messages) + 1
           /\ messages'[Len(messages')].kind = "confirm"
           /\ \E i \in 1..Len(usageLogs') :
                usageLogs'[i].action = "tool_execution"]_vars

\* C29: a handling that ends in a nack has written nothing: it has created
\* no Task, written no COMPLETED, backfilled no cost.
Wrote(h) ==
    \/ ChatHandler(h) /\ hs[h].task # 0
    \/ ResumeHandler(h) /\ hs[h].pc \in {"resume_agent", "resume_notify"}
    \/ /\ ChatHandler(h)
       /\ hs[h].pc \in {"chat_task", "chat_hold", "chat_tool", "chat_text"}
       /\ Data(h).dbMessageId \in 1..Len(messages)

C29_NackedHandlingLeavesNoWrites ==
    [][\A h \in Handlers :
        ( /\ hs[h].m # 0
          /\ hs'[h] = Idle
          /\ bus'[hs[h].m].state \in {"queued", "dead"} )
        => ~Wrote(h)]_vars

\* C30: every delivery gets exactly one decision: while a handler holds the
\* message neither ack nor nack has been called, a handler that is not done
\* can take a step, and once no handler holds a delivered message exactly one
\* of ack and nack has been called on that delivery.
StepAt(h) ==
    /\ At(h, "resume_find") => ENABLED ResumeFindTask(h)
    /\ At(h, "resume_update") => ENABLED ResumeUpdateTask(h)
    /\ At(h, "resume_agent") => ENABLED ResumeFindAgent(h)
    /\ At(h, "resume_notify") => ENABLED ResumeNotify(h)
    /\ At(h, "chat_safety") => ENABLED ChatSafetyCheck(h)
    /\ At(h, "chat_agent") => ENABLED ChatFindAgent(h)
    /\ At(h, "chat_history") => ENABLED ChatHistory(h)
    /\ At(h, "chat_model") => \E r \in ModelResults : ENABLED ChatSendMessage(h, r)
    /\ At(h, "chat_cost") => ENABLED ChatSaveCost(h)
    /\ At(h, "chat_task") => ENABLED ChatCreateTask(h)
    /\ At(h, "chat_hold") => ENABLED ChatHoldMessage(h)
    /\ At(h, "chat_tool") => ENABLED ChatToolMessage(h)
    /\ At(h, "chat_text") => ENABLED ChatTextMessage(h)
    /\ At(h, "in_root") => ENABLED IngressRootSpan(h)
    /\ At(h, "in_resume_agent") => ENABLED IngressResumeAgent(h)
    /\ At(h, "in_fetch") => ENABLED IngressFetch(h)
    /\ At(h, "in_usage") => ENABLED IngressUsage(h)
    /\ At(h, "in_resume_span") => ENABLED IngressResumeSpan(h)
    /\ At(h, "in_lookup") => ENABLED IngressLookup(h)
    /\ At(h, "in_lookup_span") => ENABLED IngressLookupSpan(h)
    /\ At(h, "in_task") => ENABLED IngressCreateTask(h)
    /\ At(h, "in_task_span") => ENABLED IngressTaskSpan(h)
    /\ At(h, "in_task_usage") => ENABLED IngressTaskUsage(h)
    /\ At(h, "in_finish") => ENABLED IngressFinish(h)
    /\ At(h, "in_catch") => ENABLED IngressCatch(h)

HandlerPcs ==
    AwaitPcs \cup IngressAwaitPcs \cup {"in_fetch", "in_usage", "in_catch", "idle"}

Holders(m) == {h \in Handlers : hs[h].m = m}

C30_ExactlyOneDecision ==
    /\ \A m \in 1..Len(bus) :
        /\ bus[m].state = "inflight"
           => bus[m].decisions = 0 /\ Cardinality(Holders(m)) = 1
        /\ bus[m].state # "inflight"
           => /\ Holders(m) = {}
              /\ bus[m].decisions = IF bus[m].attempts > 0 THEN 1 ELSE 0
    /\ \A h \in Handlers : hs[h].pc \in HandlerPcs /\ StepAt(h)

C30_Witness ==
    \E m \in 1..Len(bus) :
        /\ bus[m].attempts = 2
        /\ bus[m].state = "acked"
        /\ bus[m].decisions = 1
        /\ bus[m].data.type = "CHAT"

\* C31: in CHAT handling the emergency_stop flag is read once, at the safety
\* check, before the agent lookup, the model call and every write: the check
\* is entered only by a delivery, its step writes nothing and goes by the
\* flag's value at that moment, and once past it a handling is never dropped
\* because the flag was switched on meanwhile.
PostSafetyPcs == { "chat_agent", "chat_history", "chat_model", "chat_cost",
                   "chat_task", "chat_hold", "chat_tool", "chat_text" }

C31_FlagReadOnceFirst ==
    [][\A h \in Handlers :
        /\ (hs'[h].pc = "chat_safety" /\ hs'[h] # hs[h]) => At(h, "idle")
        /\ (At(h, "chat_safety") /\ hs'[h] # hs[h])
           => /\ tasks' = tasks /\ messages' = messages
              /\ modelCalls' = modelCalls /\ toolExecs' = toolExecs
              /\ hs'[h].pc = "chat_agent" => ~emergency_stop
              /\ bus'[hs[h].m].state = "acked" => emergency_stop
        /\ (hs[h].pc \in PostSafetyPcs /\ hs'[h] # hs[h] /\ emergency_stop
              /\ bus'[hs[h].m].state = "acked")
           => \/ Len(messages') = Len(messages) + 1
              \/ At(h, "chat_agent") /\ Data(h).agentId \notin AgentIds]_vars

C31_Witness ==
    /\ emergency_stop
    /\ \E h \in Handlers : At(h, "chat_text")
    /\ \E i \in 1..Len(messages) : messages[i].costed

\* C32: the history given to the model for a CHAT event is made of the
\* min(10, n) most recently created Messages of the event's agent, oldest
\* first, and of no other agent's Message.
C32_HistoryIsRecentWindow ==
    [][\A h \in Handlers :
        (At(h, "chat_history") /\ hs'[h].pc = "chat_model")
        => LET a == Data(h).agentId
               H == hs'[h].history
               own == {i \in 1..Len(messages) : messages[i].agentId = a}
               used == {H[i].row : i \in 1..Len(H)}
           IN  /\ used \subseteq own
               /\ Len(H) = IF Cardinality(own) < 10 THEN Cardinality(own) ELSE 10
               /\ \A i, j \in 1..Len(H) : i < j => H[i].row < H[j].row
               /\ \A i \in own \ used : \A j \in used : i < j]_vars

C32_Witness ==
    \E h \in Handlers :
        /\ At(h, "chat_model")
        /\ Len(hs[h].history) = 10
        /\ Cardinality({i \in 1..Len(messages) :
                            messages[i].agentId = Data(h).agentId}) > 10
        /\ \E i \in 1..Len(messages) :
              /\ messages[i].agentId # Data(h).agentId
              /\ i > hs[h].history[1].row

\* C33: the worker leaves the agent, role and content of every existing
\* Message as they are; the only fields it sets on an existing Message are
\* the tokens and cost of the user Message that the event's dbMessageId
\* names, and a handling whose event has no dbMessageId updates no Message.
C33_OnlyCostBackfilled ==
    [][/\ Len(messages') >= Len(messages)
       /\ \A i \in 1..Len(messages) :
            /\ messages'[i].agentId = messages[i].agentId
            /\ messages'[i].role = messages[i].role
            /\ messages'[i].content = messages[i].content
            /\ messages'[i] # messages[i]
               => /\ messages[i].role = "user"
                  /\ \E h \in Handlers :
                        /\ At(h, "chat_cost")
                        /\ hs'[h] # hs[h]
                        /\ Data(h).dbMessageId = i
       /\ \A h \in Handlers :
            (hs[h].pc \in PostSafetyPcs /\ hs'[h] # hs[h] /\ Data(h).dbMessageId = 0)
            => SubSeq(messages', 1, Len(messages)) = messages]_vars

C33_Witness ==
    /\ \E i \in 1..Len(messages) : messages[i].role = "user" /\ messages[i].costed
    /\ \E m \in 1..Len(bus) :
          /\ bus[m].data.type = "CHAT"
          /\ bus[m].data.dbMessageId = 0
          /\ bus[m].data.agentId \in AgentIds
          /\ bus[m].state = "acked"
          /\ \E i \in 1..Len(messages) : messages[i].role = "assistant"

\* C34: stale Tasks are counted, never resolved: a dashboard request leaves
\* the Task table as it is, and a PENDING Task changes its status only in
\* the step of an approve or reject request for that Task.
C34_ZombiesOnlyCounted ==
    [][/\ stats' # stats => tasks' = tasks
       /\ \A id \in TaskIds :
            (tasks[id].status = "PENDING" /\ tasks'[id].status # "PENDING")
            => /\ apiCalls' = apiCalls + 1
               /\ apiLast'.id = id
               /\ apiLast'.op \in {"approve", "reject"}]_vars

C34_Witness ==
    /\ stats.served
    /\ stats.zombieCount = 1
    /\ \E id \in TaskIds : tasks[id].status = "PENDING"
    /\ \A h \in Handlers : At(h, "idle")
    /\ \A m \in 1..Len(bus) : bus[m].state = "acked"

\* C35: approve publishes its RESUME event after it has stored status
\* APPROVED, at most one per call and none for a Task that does not exist;
\* reject publishes nothing.
ResumeEvents == {m \in 1..Len(bus) : bus[m].source = "governance-api"}

C35_ResumeFollowsApproval ==
    [][/\ Len(bus') > Len(bus) /\ bus'[Len(bus')].source = "governance-api"
          => /\ Len(bus') = Len(bus) + 1
             /\ Len(publishing') = Len(publishing) - 1
             /\ bus'[Len(bus')].data.type = "RESUME"
             /\ \E i \in 1..Len(publishing) :
                   /\ publishing[i] = bus'[Len(bus')].data.taskId
                   /\ publishing' = Without(publishing, i)
       /\ Len(publishing') > Len(publishing)
          => /\ publishing' = Append(publishing, apiLast'.id)
             /\ apiCalls' = apiCalls + 1
             /\ apiLast'.op = "approve"
             /\ apiLast'.id \in TaskIds
             /\ tasks'[apiLast'.id].status = "APPROVED"
       /\ (apiCalls' # apiCalls /\ (apiLast'.op = "reject" \/ apiLast'.id \notin TaskIds))
          => bus' = bus /\ publishing' = publishing]_vars

C35_Witness ==
    /\ apiCalls = 3
    /\ Cardinality(ResumeEvents) = 1
    /\ publishing = << >>
    /\ apiLast.op = "reject" /\ apiLast.code = 200

\* C36: no Task stays APPROVED for ever: while a Task is APPROVED, a RESUME
\* event for it is about to be published or is on the bus, waiting for or
\* in the hands of the worker that will complete it.
C36_ApprovedIsResumed ==
    \A id \in TaskIds :
        tasks[id].status = "APPROVED"
        => \/ \E i \in 1..Len(publishing) : publishing[i] = id
           \/ \E m \in 1..Len(bus) :
                 /\ bus[m].data.type = "RESUME"
                 /\ bus[m].data.taskId = id
                 /\ bus[m].state \in {"queued", "inflight"}

\* C37: a CHAT delivery that got past the safety check and found its agent
\* and ends in an ack wrote exactly one assistant Message (approval notice,
\* tool output or text reply), in its last step; every other step of a CHAT
\* delivery, the one that nacks included, writes no Message.
C37_OneReplyPerAckedChat ==
    [][\A h \in Handlers :
        (ChatHandler(h) /\ hs'[h] # hs[h])
        => IF /\ hs'[h] = Idle
              /\ bus'[hs[h].m].state = "acked"
              /\ hs[h].pc \notin {"chat_safety", "chat_agent"}
           THEN /\ Len(messages') = Len(messages) + 1
                /\ SubSeq(messages', 1, Len(messages)) = messages
                /\ messages'[Len(messages')].role = "assistant"
                /\ messages'[Len(messages')].agentId = Data(h).agentId
                /\ messages'[Len(messages')].kind \in {"hold", "tool", "text"}
           ELSE Len(messages') = Len(messages)]_vars

C37_Witness ==
    \E m \in 1..Len(bus) :
        /\ bus[m].data.type = "CHAT"
        /\ bus[m].state = "acked"
        /\ bus[m].attempts = 2
        /\ Cardinality({i \in 1..Len(messages) : messages[i].role = "assistant"}) = 1

\* C38: in the ingress worker an event that is not a RESUME is acked with
\* exactly one Task (created PENDING) and one tool_call UsageLog written
\* when its source is the role of a LIVE agent, and with no Task and no
\* UsageLog otherwise.
ToolCallLogs(logs) == {i \in 1..Len(logs) : logs[i].action = "tool_call"}

SignalRouted ==
    \A h \in Handlers :
        /\ ( /\ hs[h].pc \in IngressAwaitPcs \cup {"in_catch"}
             /\ Data(h).type # "RESUME"
             /\ hs'[h] = Idle
             /\ bus'[hs[h].m].state = "acked" )
           => IF LiveAgentFor(Data(h).source) # ""
              THEN /\ Len(tasks') = 1
                   /\ tasks'[1].agentId = LiveAgentFor(Data(h).source)
                   /\ Cardinality(ToolCallLogs(usageLogs')) = 1
              ELSE /\ tasks' = << >>
                   /\ usageLogs' = << >>
        /\ (At(h, "in_task") /\ Len(tasks') > Len(tasks))
           => tasks'[Len(tasks')].status = "PENDING"

C38_SignalRoutedOnce == [][SignalRouted]_vars

\* C39: whatever the interleaving of update requests for an agent, a
\* prompt-history entry is written exactly when the submitted prompt
\* differs from the stored one, it holds the prompt stored until then, and
\* the agent's entries are numbered 1, 2, 3, ... without repetition.
C39_PromptHistoryVersioned ==
    [][\A i \in 1..Len(updating) :
        /\ (updating[i].pc = "history" /\ updating'[i].pc = "update")
           => LET entry == promptHistory'[Len(promptHistory')]
                  a == updating[i].agent
              IN  /\ prompts[a] # updating[i].systemPrompt
                  /\ entry.prompt = prompts[a]
                  /\ entry.version = Cardinality(HistoryOf(a)) + 1
        /\ (updating[i].pc = "update" /\ updating'[i].code = 200
              /\ updating[i].currentPrompt = updating[i].systemPrompt)
           => prompts[updating[i].agent] = updating[i].systemPrompt]_vars

====
